---- MODULE Spec2Model ----
(***************************************************************************)
(* The blog application of main.py as a state machine: the three tables    *)
(* (blog_users, blog_posts, comments), one session binding per client and  *)
(* one action per request handler.  Every action leaves the response of    *)
(* the request it served in `last`.  Spec serves each request whole;       *)
(* SpecRace serves register in two steps, so that register requests of     *)
(* several clients interleave between the existence check and the commit.  *)
(***************************************************************************)
EXTENDS Integers, Sequences, FiniteSets, TLC

\* ---- bounds of the model ----
MaxPostId == 2
MaxComments == 1

\* ---- program constants: the administrator's id, the anonymous session, NULL ----
AdminId == 1
Anonymous == 0
Null == 0

Clients == {"c1", "c2"}
Names == {"n"}
Emails == {"a@x", "b@x"}
Passwords == {"pw1", "pw2"}
Salts == {"s1", "s2"}
CommentTexts == {"c1"}
Days == {1, 2}
PostIds == 1..MaxPostId

NoForm == [kind |-> "none"]
RegisterForms == [kind : {"register"}, name : Names, email : Emails, password : Passwords]
LoginForms == [kind : {"login"}, email : Emails, password : Passwords]
CommentForms == [kind : {"comment"}, comment : CommentTexts]
CreatePostForms ==
    { [kind |-> "post", title |-> "T1", subtitle |-> "S1", body |-> "B1", img_url |-> "U1"],
      [kind |-> "post", title |-> "T2", subtitle |-> "S2", body |-> "B2", img_url |-> "U2"] }

VARIABLES users, posts, comments, sess, pending, last

vars == <<users, posts, comments, sess, pending, last>>
tables == <<users, posts, comments>>

\* ---- pure helpers ----
Max(S) == CHOOSE x \in S : \A y \in S : y <= x

\* form.validate_on_submit(): the request is a POST whose fields pass validation;
\* a GET, or a POST that fails validation, is the submission NoForm
ValidateOnSubmit(form) == form.kind # "none"

\* werkzeug's salted one-way hash: the digest depends on the salt and the password
Pbkdf2(salt, password) == <<"pbkdf2:sha256", salt, password>>

GeneratePasswordHash(password, salt) == [salt |-> salt, digest |-> Pbkdf2(salt, password)]

\* faulty variant: only the salt part of the digest is compared
CheckPasswordHashSaltOnly(pwhash, password) ==
    Pbkdf2(pwhash.salt, password)[2] = pwhash.digest[2]

\* check_password_hash: the digest of the candidate under the stored salt is the stored one
CheckPasswordHash(pwhash, password) == Pbkdf2(pwhash.salt, password) = pwhash.digest

\* date.today().strftime("%B %d, %Y")
Strftime(day) == <<"November", day, "2026">>

\* faulty variant: only the first row is compared
FindUserByEmailFirstRow(email) ==
    IF Len(users) >= 1 /\ users[1].email = email THEN 1 ELSE Null

\* User.query.filter_by(email=email).first(): the id of the first match, or Null
FindUserByEmail(email) ==
    IF \E i \in 1..Len(users) : users[i].email = email
    THEN CHOOSE i \in 1..Len(users) :
            /\ users[i].email = email
            /\ \A j \in 1..(i - 1) : users[j].email # email
    ELSE Null

\* faulty variant: the anonymous session counts as authenticated
IsAuthenticatedAlways(c) == TRUE

\* current_user.is_authenticated for the session of client c
IsAuthenticated(c) == sess[c] # Anonymous

\* faulty variant: the user id is not compared with the administrator's
AdminOnlyAnyUser(c) == IsAuthenticated(c)

\* the test of the admin_only decorator
AdminOnly(c) == IsAuthenticated(c) /\ sess[c] = AdminId

\* Query.get on a table: the key of the row, Null when there is no such row
QueryGet(table, id) == IF id \in DOMAIN table THEN id ELSE Null

\* BlogPost.query.get(post_id)
GetPost(pid) == QueryGet(posts, pid)

\* the id SQLite gives a new blog_posts row (INTEGER PRIMARY KEY, no AUTOINCREMENT)
NextPostId == IF DOMAIN posts = {} THEN 1 ELSE Max(DOMAIN posts) + 1

\* faulty variant: the column is not unique
EmailNotUnique(email) == FALSE

\* the unique constraint on blog_users.email, tested when a new row is committed
EmailTaken(email) == \E i \in 1..Len(users) : users[i].email = email

\* faulty variant: the author is not set
NewPostAuthorless(form, author, day) ==
    [title |-> form.title, subtitle |-> form.subtitle, body |-> form.body,
     img_url |-> form.img_url, author_id |-> Null, date |-> Strftime(day)]

\* the BlogPost row built by add_new_post
NewPost(form, author, day) ==
    [title |-> form.title, subtitle |-> form.subtitle, body |-> form.body,
     img_url |-> form.img_url, author_id |-> author, date |-> Strftime(day)]

\* faulty variant: the date is written again, on another day
EditedPostRedated(post, form, author) ==
    [post EXCEPT !.title = form.title, !.subtitle = form.subtitle,
                 !.img_url = form.img_url, !.author_id = author, !.body = form.body,
                 !.date = Strftime(CHOOSE d \in Days : Strftime(d) # post.date)]

\* the assignments of edit_post to the row it fetched
EditedPost(post, form, author) ==
    [post EXCEPT !.title = form.title, !.subtitle = form.subtitle,
                 !.img_url = form.img_url, !.author_id = author, !.body = form.body]

\* faulty variant: the two foreign keys are exchanged
NewCommentSwapped(author, post, form) ==
    [comment_id |-> post, post_id |-> author, text |-> form.comment]

\* the Comment row built by show_post: comment (the author) and parent_post
NewComment(author, post, form) ==
    [comment_id |-> author, post_id |-> post, text |-> form.comment]

\* the unique constraint on blog_posts.title, for the row `self` (Null: a new row)
TitleTaken(title, self) == \E p \in DOMAIN posts : p # self /\ posts[p].title = title

\* post.comments: the ids of the rows of the comments table whose parent is the post
CommentsOf(table, pid) == {i \in 1..Len(table) : table[i].post_id = pid}

Idle(c) == pending[c] = NoForm

\* the response of a request: the handler that served it, the status, the redirect
\* target (an endpoint), the
\* flashed message, whether the handler's body ran, the comments handed to the page
Resp(route, status, loc, flash, ran) ==
    [route |-> route, status |-> status, loc |-> loc, flash |-> flash, ran |-> ran,
     shown |-> {}]

TypeOK ==
    /\ \A i \in 1..Len(users) : users[i].email \in Emails
    /\ DOMAIN posts \subseteq 1..MaxPostId
    /\ Len(comments) <= MaxComments
    /\ \A c \in Clients : sess[c] \in 0..Len(users)

Init ==
    /\ users = <<>>
    /\ posts = <<>>
    /\ comments = <<>>
    /\ sess = [c \in Clients |-> Anonymous]
    /\ pending = [c \in Clients |-> NoForm]
    /\ last = Resp("init", 0, "", "", FALSE)

\* ---- GET / ----
GetAllPosts(c) ==
    /\ Idle(c)
    /\ last' = Resp("get_all_posts", 200, "", "", TRUE)
    /\ UNCHANGED <<users, posts, comments, sess, pending>>

\* ---- /register, the whole handler ----
Register(c, form, salt) ==
    /\ Idle(c)
    /\ LET new_user == [name |-> form.name, email |-> form.email,
                        password |-> GeneratePasswordHash(form.password, salt)]
       IN IF ~ValidateOnSubmit(form)
          THEN /\ last' = Resp("register", 200, "", "", TRUE)
               /\ UNCHANGED <<users, sess>>
          ELSE IF FindUserByEmail(form.email) # Null
          THEN /\ last' = Resp("register", 302, "login", "email exists", TRUE)
               /\ UNCHANGED <<users, sess>>
          ELSE IF EmailTaken(form.email)
          THEN \* the unique constraint on blog_users.email: IntegrityError
               /\ last' = Resp("register", 500, "", "", TRUE)
               /\ UNCHANGED <<users, sess>>
          ELSE /\ users' = Append(users, new_user)
               /\ sess' = [sess EXCEPT ![c] = Len(users) + 1]
               /\ last' = Resp("register", 302, "get_all_posts", "", TRUE)
    /\ UNCHANGED <<posts, comments, pending>>

\* ---- /register as two steps of a request served beside others: lines 103-110,
\* up to the existence check; the request stays in flight when the check passes ----
RegisterCheck(c, form) ==
    /\ Idle(c)
    /\ IF ~ValidateOnSubmit(form)
       THEN /\ last' = Resp("register", 200, "", "", TRUE)
            /\ UNCHANGED pending
       ELSE IF FindUserByEmail(form.email) # Null
       THEN /\ last' = Resp("register", 302, "login", "email exists", TRUE)
            /\ UNCHANGED pending
       ELSE /\ pending' = [pending EXCEPT ![c] = form]
            /\ last' = Resp("register", 0, "", "", TRUE)
    /\ UNCHANGED <<users, posts, comments, sess>>

\* ---- /register: lines 111-117, the insert, the commit and the login ----
RegisterCommit(c, salt) ==
    /\ ~Idle(c)
    /\ LET form == pending[c]
           new_user == [name |-> form.name, email |-> form.email,
                        password |-> GeneratePasswordHash(form.password, salt)]
       IN IF EmailTaken(form.email)
          THEN \* the unique constraint on blog_users.email: IntegrityError
               /\ last' = Resp("register", 500, "", "", TRUE)
               /\ UNCHANGED <<users, sess>>
          ELSE /\ users' = Append(users, new_user)
               /\ sess' = [sess EXCEPT ![c] = Len(users) + 1]
               /\ last' = Resp("register", 302, "get_all_posts", "", TRUE)
    /\ pending' = [pending EXCEPT ![c] = NoForm]
    /\ UNCHANGED <<posts, comments>>

\* ---- /login ----
Login(c, form) ==
    /\ Idle(c)
    /\ LET user == FindUserByEmail(form.email)
       IN IF ~ValidateOnSubmit(form)
          THEN /\ last' = Resp("login", 200, "", "", TRUE)
               /\ UNCHANGED sess
          ELSE IF user = Null
          THEN /\ last' = Resp("login", 200, "", "no such email", TRUE)
               /\ UNCHANGED sess
          ELSE IF ~CheckPasswordHash(users[user].password, form.password)
          THEN /\ last' = Resp("login", 200, "", "incorrect password", TRUE)
               /\ UNCHANGED sess
          ELSE /\ sess' = [sess EXCEPT ![c] = user]
               /\ last' = Resp("login", 302, "get_all_posts", "", TRUE)
    /\ UNCHANGED <<users, posts, comments, pending>>

\* ---- /logout ----
\* faulty variant: the binding is left in the session
LogoutUserKeepsBinding(c) == sess

\* logout_user(): the user id is removed from the session of the requesting client
LogoutUser(c) == [sess EXCEPT ![c] = Anonymous]

Logout(c) ==
    /\ Idle(c)
    /\ sess' = LogoutUser(c)
    /\ last' = Resp("logout", 302, "get_all_posts", "", TRUE)
    /\ UNCHANGED <<users, posts, comments, pending>>

\* ---- /post/<post_id> ----
\* render_template("post.html", post=None, ...): the template is handed no post
RenderMissingPost == {200, 500}

ShowPost(c, pid, form) ==
    /\ Idle(c)
    /\ LET requested_post == GetPost(pid)
           new_comment == NewComment(sess[c], requested_post, form)
       IN IF ValidateOnSubmit(form) /\ ~IsAuthenticated(c)
          THEN /\ last' = Resp("show_post", 302, "login", "login to comment", TRUE)
               /\ UNCHANGED comments
          ELSE /\ IF ValidateOnSubmit(form)
                  THEN /\ Len(comments) < MaxComments
                       /\ comments' = Append(comments, new_comment)
                  ELSE UNCHANGED comments
               /\ \E st \in (IF requested_post = Null THEN RenderMissingPost ELSE {200}) :
                     last' = [Resp("show_post", st, "", "", TRUE)
                              EXCEPT !.shown =
                                 IF requested_post = Null THEN {}
                                 ELSE CommentsOf(comments', requested_post)]
    /\ UNCHANGED <<users, posts, sess, pending>>

\* ---- the admin_only decorator: decorated_function aborts before f is called,
\* whatever the arguments of the request; otherwise the request is served by f ----
AdminRoutes == {"add_new_post", "edit_post", "delete_post"}

Abort403(c, route) ==
    /\ Idle(c)
    /\ ~AdminOnly(c)
    /\ last' = Resp(route, 403, "", "", FALSE)
    /\ UNCHANGED <<users, posts, comments, sess, pending>>

\* ---- /new-post ----
AddNewPost(c, form, day) ==
    /\ Idle(c)
    /\ AdminOnly(c)
    /\ IF ~ValidateOnSubmit(form)
       THEN /\ last' = Resp("add_new_post", 200, "", "", TRUE)
            /\ UNCHANGED posts
       ELSE IF TitleTaken(form.title, Null)
       THEN \* the unique constraint on blog_posts.title: IntegrityError
            /\ last' = Resp("add_new_post", 500, "", "", TRUE)
            /\ UNCHANGED posts
       ELSE LET id == NextPostId
                new_post == NewPost(form, sess[c], day)
            IN /\ id <= MaxPostId
               /\ posts' = [i \in DOMAIN posts \cup {id} |->
                               IF i = id THEN new_post ELSE posts[i]]
               /\ last' = Resp("add_new_post", 302, "get_all_posts", "", TRUE)
    /\ UNCHANGED <<users, comments, sess, pending>>

\* ---- /edit-post/<post_id> ----
EditPost(c, pid, form) ==
    /\ Idle(c)
    /\ AdminOnly(c)
    /\ LET post == GetPost(pid)
       IN IF post = Null
          THEN \* post.title on None: AttributeError
               /\ last' = Resp("edit_post", 500, "", "", TRUE)
               /\ UNCHANGED posts
          ELSE IF ~ValidateOnSubmit(form)
          THEN /\ last' = Resp("edit_post", 200, "", "", TRUE)
               /\ UNCHANGED posts
          ELSE IF TitleTaken(form.title, post)
          THEN \* the unique constraint on blog_posts.title: IntegrityError
               /\ last' = Resp("edit_post", 500, "", "", TRUE)
               /\ UNCHANGED posts
          ELSE /\ posts' = [posts EXCEPT ![post] = EditedPost(@, form, sess[c])]
               /\ last' = Resp("edit_post", 302, "show_post", "", TRUE)
    /\ UNCHANGED <<users, comments, sess, pending>>

\* ---- /delete/<post_id> ----
\* faulty variant: the comments of the deleted post keep its id
KeepComments(pid) == comments

\* the flush of a deleted BlogPost: the rows of its `comments` relationship (no
\* delete cascade) get post_id = NULL
NullifyComments(pid) ==
    [i \in 1..Len(comments) |->
        IF comments[i].post_id = pid THEN [comments[i] EXCEPT !.post_id = Null]
        ELSE comments[i]]

DeletePost(c, pid) ==
    /\ Idle(c)
    /\ AdminOnly(c)
    /\ LET post_to_delete == GetPost(pid)
       IN IF post_to_delete = Null
          THEN \* db.session.delete(None): UnmappedInstanceError
               /\ last' = Resp("delete_post", 500, "", "", TRUE)
               /\ UNCHANGED <<posts, comments>>
          ELSE /\ posts' = [i \in DOMAIN posts \ {post_to_delete} |-> posts[i]]
               /\ comments' = NullifyComments(post_to_delete)
               /\ last' = Resp("delete_post", 302, "get_all_posts", "", TRUE)
    /\ UNCHANGED <<users, sess, pending>>

\* the salt of a new hash is drawn at random; no handler reads it, and the
\* content handlers are explored with one value of it
OneSalt == {"s1"}
OnePassword == {"pw1"}
RegisterFormsOne == {f \in RegisterForms : f.password \in OnePassword}
LoginFormsOne == {f \in LoginForms : f.password \in OnePassword}

Next ==
    \/ \E c \in Clients : GetAllPosts(c)
    \/ \E c \in Clients, form \in {NoForm} \cup RegisterFormsOne, salt \in OneSalt :
          Register(c, form, salt)
    \/ \E c \in Clients, form \in {NoForm} \cup LoginFormsOne : Login(c, form)
    \/ \E c \in Clients : Logout(c)
    \/ \E c \in Clients, pid \in PostIds, form \in {NoForm} \cup CommentForms :
          ShowPost(c, pid, form)
    \/ \E c \in Clients, route \in AdminRoutes : Abort403(c, route)
    \/ \E c \in Clients, form \in {NoForm} \cup CreatePostForms, day \in Days :
          AddNewPost(c, form, day)
    \/ \E c \in Clients, pid \in PostIds, form \in {NoForm} \cup CreatePostForms :
          EditPost(c, pid, form)
    \/ \E c \in Clients, pid \in PostIds : DeletePost(c, pid)

\* every request served whole, in any order, by any client
Spec == Init /\ [][Next]_vars

\* register requests of several clients served concurrently, with logins and logouts
NextRace ==
    \/ \E c \in Clients, form \in {NoForm} \cup RegisterForms : RegisterCheck(c, form)
    \/ \E c \in Clients, salt \in Salts : RegisterCommit(c, salt)
    \/ \E c \in Clients, form \in {NoForm} \cup LoginForms : Login(c, form)
    \/ \E c \in Clients : Logout(c)

SpecRace == Init /\ [][NextRace]_vars

\* ======================= the claims =======================

\* a request of client c to an admin-guarded route, whatever its arguments
AdminRouteRequest(c) ==
    \/ \E route \in AdminRoutes : Abort403(c, route)
    \/ \E form \in {NoForm} \cup CreatePostForms, day \in Days : AddNewPost(c, form, day)
    \/ \E pid \in PostIds, form \in {NoForm} \cup CreatePostForms : EditPost(c, pid, form)
    \/ \E pid \in PostIds : DeletePost(c, pid)

\* C1: a request to new-post, edit-post or delete from a client whose session is
\* anonymous or bound to a user other than the administrator (id 1) is answered
\* 403, the handler's body does not run, and the three tables are unchanged.
C1_AdminGuard ==
    [][last'.route \in AdminRoutes =>
       \A c \in Clients :
          (sess[c] # AdminId /\ AdminRouteRequest(c)) =>
             /\ last'.status = 403
             /\ ~last'.ran
             /\ UNCHANGED tables]_vars

\* a logged-in user who is not the administrator was refused while posts exist
C1_Witness ==
    /\ last.route \in AdminRoutes
    /\ last.status = 403
    /\ DOMAIN posts # {}
    /\ \E c \in Clients : sess[c] \notin {Anonymous, AdminId}

\* C2: a valid registration whose email is already the email of a stored user
\* creates no user, leaves the users and the requester's session as they were,
\* and is answered by a redirect to the login page.
C2_DuplicateRegistration ==
    [][last'.route = "register" =>
       \A c \in Clients, form \in RegisterForms, salt \in Salts :
          (/\ \E i \in 1..Len(users) : users[i].email = form.email
           /\ Register(c, form, salt)) =>
             /\ users' = users
             /\ sess'[c] = sess[c]
             /\ last'.status = 302
             /\ last'.loc = "login"]_vars

\* a registration was turned away although the email is the second user's
C2_Witness ==
    /\ last.route = "register"
    /\ last.status = 302
    /\ last.loc = "login"
    /\ Len(users) = 2
    /\ \E c \in Clients : sess[c] = Anonymous

\* C3: a valid comment submission from a session that is not authenticated
\* creates no comment and is answered by a redirect to the login page.
C3_AnonymousComment ==
    [][last'.route = "show_post" =>
       \A c \in Clients, pid \in PostIds, form \in CommentForms :
          (sess[c] = Anonymous /\ ShowPost(c, pid, form)) =>
             /\ comments' = comments
             /\ last'.status = 302
             /\ last'.loc = "login"]_vars

\* an anonymous comment submission was redirected while a post exists
C3_Witness ==
    /\ last.route = "show_post"
    /\ last.status = 302
    /\ last.loc = "login"
    /\ DOMAIN posts # {}
    /\ \E c \in Clients : sess[c] = Anonymous

\* the plaintext a stored hash was generated from
RegisteredPassword(i) == users[i].password.digest[3]

\* C4: a login submission binds the session only when a user with the submitted
\* email exists and the submitted password is the one that user registered with,
\* and then to exactly that user; otherwise the binding stays and no redirect to
\* the post list is issued.
C4_Login ==
    [][last'.route = "login" =>
       \A c \in Clients, form \in LoginForms :
          Login(c, form) =>
             LET match == {i \in 1..Len(users) :
                              /\ users[i].email = form.email
                              /\ RegisteredPassword(i) = form.password}
             IN IF match # {}
                THEN /\ sess'[c] \in match
                     /\ CheckPasswordHash(users[sess'[c]].password, form.password)
                     /\ last'.status = 302
                     /\ last'.loc = "get_all_posts"
                ELSE /\ sess'[c] = sess[c]
                     /\ ~(last'.status = 302 /\ last'.loc = "get_all_posts")]_vars

\* a wrong password was rejected for the second user, whose session another login bound
C4_Witness ==
    /\ last.route = "login"
    /\ last.flash = "incorrect password"
    /\ Len(users) = 2
    /\ \E c \in Clients : sess[c] = 2
    /\ \E c \in Clients : sess[c] = Anonymous

\* C5: after the administrator creates a post through new-post, fetching it by
\* its identifier returns exactly the submitted title, subtitle, body and image
\* URL, with an author (the creating user) and a date that are not null.
C5_CreateThenFetch ==
    [][(last'.route = "add_new_post" /\ last'.status = 302) =>
       \A c \in Clients, form \in CreatePostForms, day \in Days :
          AddNewPost(c, form, day) =>
             LET id == NextPostId
                 fetched == QueryGet(posts', id)
             IN /\ fetched # Null
                /\ posts'[fetched].title = form.title
                /\ posts'[fetched].subtitle = form.subtitle
                /\ posts'[fetched].body = form.body
                /\ posts'[fetched].img_url = form.img_url
                /\ posts'[fetched].author_id # Null
                /\ posts'[fetched].author_id = sess[c]
                /\ posts'[fetched].date \in {Strftime(d) : d \in Days}]_vars

\* a second post was just created
C5_Witness ==
    /\ last.route = "add_new_post"
    /\ last.status = 302
    /\ Cardinality(DOMAIN posts) = 2

\* C6: deleting a post leaves no comment that refers to a post identifier with no
\* post record, and a delete request for a post that no longer exists changes no
\* user, post or comment and always ends the same way (the unhandled error of
\* deleting nothing).
C6_DeleteTwice ==
    [][last'.route = "delete_post" =>
       \A c \in Clients, pid \in PostIds :
          DeletePost(c, pid) =>
             IF pid \in DOMAIN posts
             THEN /\ pid \notin DOMAIN posts'
                  /\ \A i \in 1..Len(comments') :
                        comments'[i].post_id \in DOMAIN posts' \cup {Null}
                  /\ Len(comments') = Len(comments)
             ELSE /\ UNCHANGED <<users, posts, comments, sess>>
                  /\ last'.status = 500]_vars

\* the second delete was answered after the first one orphaned a comment
C6_Witness ==
    /\ last.route = "delete_post"
    /\ last.status = 500
    /\ \E i \in 1..Len(comments) : comments[i].post_id = Null /\ comments[i].comment_id # AdminId

\* C7: a valid comment by a logged-in user on an existing post's page is stored
\* with that text, that user as author and that post as parent, and is among the
\* comments the page shows; it stays so while the post exists, and a GET of the
\* page shows every comment of the post.
C7_CommentShown ==
    [][/\ last'.route = "show_post" =>
          \A c \in Clients, pid \in PostIds, form \in CommentForms :
             (/\ sess[c] # Anonymous
              /\ pid \in DOMAIN posts
              /\ ShowPost(c, pid, form)) =>
                \E i \in 1..Len(comments') :
                   /\ i \notin 1..Len(comments)
                   /\ comments'[i].text = form.comment
                   /\ comments'[i].comment_id = sess[c]
                   /\ comments'[i].post_id = pid
                   /\ i \in last'.shown
       /\ last'.route = "show_post" =>
          \A c \in Clients, pid \in PostIds :
             (pid \in DOMAIN posts /\ ShowPost(c, pid, NoForm)) =>
                /\ last'.status = 200
                /\ last'.shown = {i \in 1..Len(comments) : comments[i].post_id = pid}
       /\ comments' # comments =>
          \A i \in 1..Len(comments) :
             comments[i].post_id \in DOMAIN posts' =>
                (i <= Len(comments') /\ comments'[i] = comments[i])]_vars

\* the page of the administrator's post shows a comment of the second user
C7_Witness ==
    /\ last.route = "show_post"
    /\ last.status = 200
    /\ \E i \in last.shown :
          /\ comments[i].comment_id = 2
          /\ comments[i].post_id \in DOMAIN posts
          /\ posts[comments[i].post_id].author_id = AdminId

\* C8: every stored comment has an author that is an existing user and a parent
\* that is an existing post.
C8_CommentHasAuthorAndParent ==
    \A i \in 1..Len(comments) :
       /\ comments[i].comment_id \in 1..Len(users)
       /\ comments[i].post_id \in DOMAIN posts

\* C9: no two users have the same email, and a register request whose commit
\* would store a second user with an existing email fails without adding a
\* record, also when two requests passed the existence check before either
\* committed.
C9_UniqueEmail ==
    /\ [](\A i, j \in 1..Len(users) : users[i].email = users[j].email => i = j)
    /\ [][\A c \in Clients, salt \in Salts :
             (/\ pending[c] # NoForm
              /\ \E i \in 1..Len(users) : users[i].email = pending[c].email
              /\ RegisterCommit(c, salt)) =>
                /\ users' = users
                /\ sess' = sess
                /\ last'.status = 500]_vars

\* the commit of a racing registration failed on the email the winner stored
C9_Witness ==
    /\ last.route = "register"
    /\ last.status = 500
    /\ Len(users) >= 1
    /\ \A c \in Clients : pending[c] = NoForm

\* C10: a successful edit sets the title, subtitle, image URL and body of the
\* targeted post to the submitted ones and its author to the current
\* administrator; its identifier, its date, its comments, every other post and
\* every user are unchanged.
C10_EditFrame ==
    [][(last'.route = "edit_post" /\ last'.status = 302) =>
       \A c \in Clients, pid \in PostIds, form \in CreatePostForms :
          EditPost(c, pid, form) =>
             /\ DOMAIN posts' = DOMAIN posts
             /\ posts'[pid].title = form.title
             /\ posts'[pid].subtitle = form.subtitle
             /\ posts'[pid].img_url = form.img_url
             /\ posts'[pid].body = form.body
             /\ posts'[pid].author_id = sess[c]
             /\ sess[c] = AdminId
             /\ posts'[pid].date = posts[pid].date
             /\ \A q \in DOMAIN posts \ {pid} : posts'[q] = posts[q]
             /\ comments' = comments
             /\ users' = users]_vars

\* an edit changed one of two posts, which has a comment
C10_Witness ==
    /\ last.route = "edit_post"
    /\ last.status = 302
    /\ Cardinality(DOMAIN posts) = 2
    /\ \E i \in 1..Len(comments) : comments[i].post_id \in DOMAIN posts

\* C11: a logout clears the session binding of the requesting client whatever it
\* was, changes no user, post or comment and no other client's session; from
\* then on that client is anonymous - its requests to admin routes are answered
\* 403 and its comment submissions are redirected to login - and its session is
\* bound again only by a login or a registration of its own that succeeds.
C11_Logout ==
    [][/\ last'.route = "logout" =>
          \A c \in Clients :
             Logout(c) =>
                /\ sess'[c] = Anonymous
                /\ \A d \in Clients \ {c} : sess'[d] = sess[d]
                /\ UNCHANGED tables
                /\ last'.status = 302
                /\ last'.loc = "get_all_posts"
       /\ sess' # sess =>
          \A c \in Clients :
             (sess[c] = Anonymous /\ sess'[c] # Anonymous) =>
                /\ last'.route \in {"login", "register"}
                /\ last'.status = 302
                /\ last'.loc = "get_all_posts"
                /\ \/ \E form \in LoginForms : Login(c, form)
                   \/ \E form \in RegisterForms, salt \in Salts : Register(c, form, salt)
       /\ last'.route \in AdminRoutes =>
          \A c \in Clients :
             (sess[c] = Anonymous /\ AdminRouteRequest(c)) =>
                (last'.status = 403 /\ sess'[c] = Anonymous /\ UNCHANGED tables)
       /\ last'.route = "show_post" =>
          \A c \in Clients, pid \in PostIds, form \in CommentForms :
             (sess[c] = Anonymous /\ ShowPost(c, pid, form)) =>
                /\ last'.status = 302
                /\ last'.loc = "login"
                /\ sess'[c] = Anonymous
                /\ UNCHANGED tables]_vars

\* a client has just logged out while the administrator stays logged in on the
\* other client, with a post and a comment stored
C11_Witness ==
    /\ last.route = "logout"
    /\ \E c, d \in Clients : sess[c] = Anonymous /\ sess[d] = AdminId
    /\ Len(users) = 2
    /\ DOMAIN posts # {}
    /\ Len(comments) > 0
====
